---- MODULE Spec2Model ----
(***************************************************************************)
(* Model of the jiggly_fever physics kernel (src/lib.rs): the per-tick     *)
(* driver JigglyBoard::run_physics and the recursive impulse propagation   *)
(* JigglyBoard::propagate_jiggle, run against a small rectangular board.   *)
(*                                                                         *)
(* f32 values are fixed-point integers: the integer X stands for the real  *)
(* X / Unit.  Sums and differences are exact; a product or quotient is     *)
(* rounded to the nearest representable value (FMul, RDiv).                *)
(***************************************************************************)
EXTENDS Integers, Sequences, FiniteSets, TLC

\* ------------------------------------------------------------- arithmetic

\* The f32 literal 1.0.
Unit == 4

\* The f32 literal 0.5.
Half == Unit \div 2

Abs(x) == IF x < 0 THEN -x ELSE x

Max(a, b) == IF a >= b THEN a ELSE b

Min(a, b) == IF a <= b THEN a ELSE b

\* a / b for b > 0, rounded to the nearest integer, ties away from zero.
RDiv(a, b) ==
    IF a >= 0 THEN (2 * a + b) \div (2 * b)
    ELSE -((2 * (-a) + b) \div (2 * b))

\* f32 multiplication of two fixed-point values.
FMul(a, b) == RDiv(a * b, Unit)

\* f32::clamp(x, lo, hi)
Clamp(x, lo, hi) == Max(lo, Min(x, hi))

\* f32::recip(x), x > 0
Recip(x) == RDiv(Unit * Unit, x)

\* ------------------------------------------------------------------ bounds

\* Number of run_physics calls explored from one initial board.
MaxTicks == 2

\* Number of columns of the board, and cells per column.
NCols == 2

NRows == 2

\* ------------------------------------------------------------- data model

\* SlimeState: a tagged variant; the fields a variant does not carry are 0.
Settled == [tag |-> "Settled", velocity |-> 0, momentum |-> 0, offset |-> 0, life |-> 0]

Falling(v) == [tag |-> "Falling", velocity |-> v, momentum |-> 0, offset |-> 0, life |-> 0]

Jiggling(m, o, l) == [tag |-> "Jiggling", velocity |-> 0, momentum |-> m, offset |-> o, life |-> l]

\* SlimePropsOut, which is also what the board stores for a cell.
SlimePropsOut(s, yb, ys, xs) == [state |-> s, y_bottom |-> yb, y_scale |-> ys, x_scale |-> xs]

\* A JigglePropagation event.
JigglePropagation(at, impulse, came_from) ==
    [at |-> at, impulse |-> impulse, came_from |-> came_from]

\* Two PhysicsProperties configurations.  In the first a positive velocity
\* moves a cell down (y_bottom - velocity*dt) and gravity accelerates it
\* downwards; in the second gravity is negative.
PhysicsPropertiesSet ==
    { [gravity |-> Unit, velocity_to_impact |-> Unit, min_impactable |-> Unit,
       jiggle_stiff |-> Unit, jiggle_damp |-> Half,
       jiggle_life_decrease_rate |-> Half,
       jiggle_life_threshold |-> Half, jiggle_life_threshold_inverse |-> 2 * Unit,
       jiggle_offset_epsilon |-> 1, jiggle_momentum_epsilon |-> 1],
      [gravity |-> -Unit, velocity_to_impact |-> Half, min_impactable |-> Half,
       jiggle_stiff |-> Half, jiggle_damp |-> Unit,
       jiggle_life_decrease_rate |-> Unit,
       jiggle_life_threshold |-> Half, jiggle_life_threshold_inverse |-> 2 * Unit,
       jiggle_offset_epsilon |-> 2, jiggle_momentum_epsilon |-> 2] }

\* The delta-times a host passes.
DtSet == {Half, Unit}

\* ------------------------------------------------------- board (the host)

\* Direction: a four-neighbour grid.
Dirs == <<"UP", "DOWN", "LEFT", "RIGHT">>

UP == "UP"

opposite(d) ==
    CASE d = "UP" -> "DOWN"
      [] d = "DOWN" -> "UP"
      [] d = "LEFT" -> "RIGHT"
      [] d = "RIGHT" -> "LEFT"

every_direction(d) == Dirs

\* Direction::other_directions: every direction but d, in a fixed order.
other_directions(d) == SelectSeq(Dirs, LAMBDA x : x # d)

\* Loc: <<column, row>>, row 0 at the bottom.
Locs == (0 .. NCols - 1) \X (0 .. NRows - 1)

Step(dir, loc) ==
    CASE dir = "UP" -> <<loc[1], loc[2] + 1>>
      [] dir = "DOWN" -> <<loc[1], loc[2] - 1>>
      [] dir = "LEFT" -> <<loc[1] - 1, loc[2]>>
      [] dir = "RIGHT" -> <<loc[1] + 1, loc[2]>>

None == [some |-> FALSE, at |-> <<0, 0>>, impulse |-> 0]

Some(at, impulse) == [some |-> TRUE, at |-> at, impulse |-> impulse]

apply_dir_to_loc_lossy(dir, loc, impulse, fo) ==
    IF Step(dir, loc) \in Locs THEN Some(Step(dir, loc), impulse - Half) ELSE None

apply_dir_to_loc_lossless(dir, loc, impulse, fo) ==
    IF Step(dir, loc) \in Locs THEN Some(Step(dir, loc), impulse) ELSE None

\* apply_dir_to_loc of the sample board: the neighbour in that direction, if
\* it is on the board, with the impulse reduced by the board's falloff.
apply_dir_to_loc(dir, loc, impulse, fo) ==
    IF Step(dir, loc) \in Locs THEN Some(Step(dir, loc), impulse - fo) ELSE None

\* One column as cols() yields it: its locations bottom-to-top.
Column(c) == [r \in 1 .. NRows |-> <<c, r - 1>>]

\* The orders in which cols() may yield the columns.
RECURSIVE SeqsOver(_)
SeqsOver(S) ==
    IF S = {} THEN {<<>>}
    ELSE UNION { { <<Column(c)>> \o rest : rest \in SeqsOver(S \ {c}) } : c \in S }

ColOrders == SeqsOver(0 .. NCols - 1)

\* The falloffs of the sample boards: what one hop takes off an impulse.
FalloffSet == {Half, Unit}

\* ------------------------------------------- run_physics: per-cell update

\* What one call of the closure passed to mut_slime_with yields: the
\* SlimePropsOut written back, the captured jiggle_offset and settled after
\* the call, and the events pushed on jiggle_propagations.
Updated(out, jo, st, push) ==
    [out |-> out, jiggle_offset |-> jo, settled |-> st, push |-> push]

SettledArmNoAdvance(state, jiggle_offset, settled) ==
    Updated(SlimePropsOut(state, jiggle_offset, Unit, Unit), jiggle_offset, settled, <<>>)

\* Settled arm.
SettledArm(state, jiggle_offset, settled) ==
    Updated(SlimePropsOut(state, jiggle_offset, Unit, Unit),
            jiggle_offset + Unit, settled, <<>>)

FallVelocityNoGravity(velocity, dt, pp) == velocity

\* Falling arm: velocity = velocity + dt * gravity
FallVelocity(velocity, dt, pp) == velocity + FMul(dt, pp.gravity)

FallPositionAdding(y_bottom, velocity, dt) == y_bottom + FMul(velocity, dt)

\* Falling arm: y_bottom = y_bottom - velocity * dt
FallPosition(y_bottom, velocity, dt) == y_bottom - FMul(velocity, dt)

ImpactsStrictly(y_bottom, jiggle_offset) == y_bottom < jiggle_offset

\* Falling arm: the impact test.
Impacts(y_bottom, jiggle_offset) == y_bottom <= jiggle_offset

\* Falling arm: the event pushed on impact.
ImpactEvent(location, velocity, pp) ==
    JigglePropagation(location, FMul(pp.velocity_to_impact, velocity), UP)

ClampedVelUnclamped(velocity) == RDiv(velocity, 9) + Unit

\* Falling arm: velocity.mul(1.0 / 9.0).add(1.0).clamp(1.0, 2.0)
ClampedVel(velocity) == Clamp(RDiv(velocity, 9) + Unit, Unit, 2 * Unit)

FallingKeepsSettled(settled) == settled

\* Falling arm: settled = false
FallingClearsSettled(settled) == FALSE

FallingArm(velocity0, y_bottom0, jiggle_offset, settled, location, dt, pp) ==
    LET velocity == FallVelocity(velocity0, dt, pp)
        y_bottom == FallPosition(y_bottom0, velocity, dt)
        clamped_vel == ClampedVel(velocity)
    IN  IF Impacts(y_bottom, jiggle_offset)
        THEN Updated(SlimePropsOut(Jiggling(0, 0, Unit), jiggle_offset, Unit, Unit),
                     jiggle_offset + Unit, FallingClearsSettled(settled),
                     <<ImpactEvent(location, velocity, pp)>>)
        ELSE Updated(SlimePropsOut(Falling(velocity), y_bottom,
                                   FMul(Unit, clamped_vel), Recip(clamped_vel)),
                     jiggle_offset, FallingClearsSettled(settled), <<>>)

\* Jiggling arm: the spring step, (momentum + stiff * -offset * dt) * damp
SpringMomentum(momentum, offset, dt, pp) ==
    FMul(momentum + FMul(FMul(pp.jiggle_stiff, -offset), dt), pp.jiggle_damp)

\* Jiggling arm: the end-of-life taper, x *= life * jiggle_life_threshold_inverse
Taper(x, life, pp) ==
    IF life < pp.jiggle_life_threshold
    THEN FMul(x, FMul(life, pp.jiggle_life_threshold_inverse))
    ELSE x

SettleTestEpsilonsOnly(momentum, offset, life, pp) ==
    /\ Abs(offset) < pp.jiggle_offset_epsilon
    /\ Abs(momentum) < pp.jiggle_momentum_epsilon

\* Jiggling arm: the settle test.
SettleTest(momentum, offset, life, pp) ==
    \/ life <= 0
    \/ /\ Abs(offset) < pp.jiggle_offset_epsilon
       /\ Abs(momentum) < pp.jiggle_momentum_epsilon

LifeAfterGrowing(life, dt, pp) == life + FMul(pp.jiggle_life_decrease_rate, dt)

\* Jiggling arm: life = life - jiggle_life_decrease_rate * dt
LifeAfter(life, dt, pp) == life - FMul(pp.jiggle_life_decrease_rate, dt)

JigglingKeepsSettled(settled) == settled

\* Jiggling arm: settled = false
JigglingClearsSettled(settled) == FALSE

JigglingArmFullHeight(momentum0, offset0, life, jiggle_offset, settled, dt, pp) ==
    LET momentum1 == SpringMomentum(momentum0, offset0, dt, pp)
        offset1 == offset0 + FMul(momentum1, dt)
        offset == Taper(offset1, life, pp)
        momentum == Taper(momentum1, life, pp)
        y_scale == Max(Unit - offset, 0)
        x_scale == Recip(Max(y_scale, Half))
    IN  IF SettleTest(momentum, offset, life, pp)
        THEN Updated(SlimePropsOut(Settled, jiggle_offset, Unit, Unit),
                     jiggle_offset + Unit, JigglingClearsSettled(settled), <<>>)
        ELSE Updated(SlimePropsOut(Jiggling(momentum, offset, LifeAfter(life, dt, pp)),
                                   jiggle_offset, y_scale, x_scale),
                     jiggle_offset + Unit, JigglingClearsSettled(settled), <<>>)

\* Jiggling arm.
JigglingArm(momentum0, offset0, life, jiggle_offset, settled, dt, pp) ==
    LET momentum1 == SpringMomentum(momentum0, offset0, dt, pp)
        offset1 == offset0 + FMul(momentum1, dt)
        offset == Taper(offset1, life, pp)
        momentum == Taper(momentum1, life, pp)
        y_scale == Max(Unit - offset, 0)
        x_scale == Recip(Max(y_scale, Half))
    IN  IF SettleTest(momentum, offset, life, pp)
        THEN Updated(SlimePropsOut(Settled, jiggle_offset, Unit, Unit),
                     jiggle_offset + Unit, JigglingClearsSettled(settled), <<>>)
        ELSE Updated(SlimePropsOut(Jiggling(momentum, offset, LifeAfter(life, dt, pp)),
                                   jiggle_offset, y_scale, x_scale),
                     jiggle_offset + y_scale, JigglingClearsSettled(settled), <<>>)

\* The closure run_physics passes to mut_slime_with for one cell.
SlimeUpdate(in, jiggle_offset, settled, location, dt, pp) ==
    CASE in.state.tag = "Settled" ->
            SettledArm(in.state, jiggle_offset, settled)
      [] in.state.tag = "Falling" ->
            FallingArm(in.state.velocity, in.y_bottom, jiggle_offset, settled,
                       location, dt, pp)
      [] in.state.tag = "Jiggling" ->
            JigglingArm(in.state.momentum, in.state.offset, in.state.life,
                        jiggle_offset, settled, dt, pp)

\* ------------------------------------- propagate_jiggle: floor and merge

BelowZero(impulse, pp) == impulse < 0

\* The recursion floor: if impulse < *min_impactable { return; }
BelowFloor(impulse, pp) == impulse < pp.min_impactable

MergeImpulseKnockingLoose(state, impulse, pp) ==
    CASE state.tag = "Settled" -> Falling(impulse)
      [] state.tag = "Falling" ->
            Jiggling(impulse + FMul(state.velocity, pp.velocity_to_impact), 0, Unit)
      [] state.tag = "Jiggling" ->
            Jiggling(state.momentum + impulse, state.offset, Unit)

MergeImpulseOverwriting(state, impulse, pp) ==
    CASE state.tag = "Settled" -> Jiggling(impulse, 0, Unit)
      [] state.tag = "Falling" ->
            Jiggling(impulse + FMul(state.velocity, pp.velocity_to_impact), 0, Unit)
      [] state.tag = "Jiggling" ->
            Jiggling(impulse, state.offset, Unit)

\* The closure propagate_jiggle passes to impulse_jiggle_with.
MergeImpulse(state, impulse, pp) ==
    CASE state.tag = "Settled" -> Jiggling(impulse, 0, Unit)
      [] state.tag = "Falling" ->
            Jiggling(impulse + FMul(state.velocity, pp.velocity_to_impact), 0, Unit)
      [] state.tag = "Jiggling" ->
            Jiggling(state.momentum + impulse, state.offset, Unit)

\* propagate_jiggle as a function of the board: the cells after the call
\* propagate_jiggle(p) made with the cells cs.
RECURSIVE PropagateJiggle(_, _, _, _), FanOut(_, _, _, _, _)
PropagateJiggle(cs, p, pp, fo) ==
    IF BelowFloor(p.impulse, pp) THEN cs
    ELSE FanOut([cs EXCEPT ![p.at].state = MergeImpulse(@, p.impulse, pp)],
                p, other_directions(p.came_from), pp, fo)

\* The loop for dir in came_from.other_directions(), from the direction
\* Head(dirs) on.
FanOut(cs, p, dirs, pp, fo) ==
    IF dirs = <<>> THEN cs
    ELSE LET dir == Head(dirs)
             r == apply_dir_to_loc(dir, p.at, p.impulse, fo)
         IN  FanOut(IF r.some
                    THEN PropagateJiggle(cs, JigglePropagation(r.at, r.impulse, opposite(dir)),
                                         pp, fo)
                    ELSE cs,
                    p, Tail(dirs), pp, fo)

\* The propagation loop of run_physics over the events evs, from cs.
RECURSIVE PropagateAll(_, _, _, _)
PropagateAll(cs, evs, pp, fo) ==
    IF evs = <<>> THEN cs
    ELSE PropagateAll(PropagateJiggle(cs, Head(evs), pp, fo), Tail(evs), pp, fo)

\* The column loop of run_physics over one column of the cells cs: what the
\* closure yields for the k-th cell of column c (k from 1), the running offset
\* starting at 0.0 and the settled flag at st.
RECURSIVE ColumnUpdate(_, _, _, _, _, _)
ColumnUpdate(cs, c, k, st, d, pp) ==
    LET before == IF k = 1 THEN Updated(cs[Column(c)[1]], 0, st, <<>>)
                  ELSE ColumnUpdate(cs, c, k - 1, st, d, pp)
    IN  SlimeUpdate(cs[Column(c)[k]], before.jiggle_offset, before.settled,
                    Column(c)[k], d, pp)

\* The events the update pass records when it visits the columns in order.
RECURSIVE UpdateEvents(_, _, _, _)
UpdateEvents(cs, order, d, pp) ==
    IF order = <<>> THEN <<>>
    ELSE LET c == Head(order)[1][1]
             RECURSIVE pushes(_)
             pushes(k) == IF k = 0 THEN <<>>
                          ELSE pushes(k - 1) \o ColumnUpdate(cs, c, k, TRUE, d, pp).push
         IN  pushes(NRows) \o UpdateEvents(cs, Tail(order), d, pp)

\* ------------------------------------------------------------------ state

VARIABLES
    physprop,             \* the PhysicsProperties the host passes
    falloff,              \* the board's per-hop falloff
    cells,                \* the board's storage: Loc -> SlimePropsOut
    pc,                   \* "idle" between calls, "run" inside run_physics
    dt,                   \* run_physics: dt
    cols,                 \* run_physics: the columns still to visit
    col,                  \* run_physics: the rest of the column being visited
    jiggle_offset,        \* run_physics: the running column offset
    settled,              \* run_physics: the settled flag
    jiggle_propagations,  \* run_physics: the recorded events not yet dispatched
    stack,                \* the active propagate_jiggle calls, innermost last
    ret,                  \* what the last run_physics call returned
    ticks,                \* the number of run_physics calls started
    cells0,               \* history: the board when the current call started
    updated,              \* history: Loc -> number of mut_slime_with calls this tick
    applied,              \* history: the impulse_jiggle_with calls of this tick
    queries               \* history: the number of apply_dir_to_loc calls this tick

vars ==
    <<physprop, falloff, cells, pc, dt, cols, col, jiggle_offset, settled,
      jiggle_propagations, stack, ret, ticks, cells0, updated, applied, queries>>

\* The cells a host may have placed at a location before the first tick.
InitCells(loc) ==
    { SlimePropsOut(Settled, loc[2] * Unit, Unit, Unit),
      SlimePropsOut(Settled, 3 * Unit, Unit, Unit),
      SlimePropsOut(Falling(2 * Unit), 3 * Unit, Unit, Unit),
      SlimePropsOut(Falling(-Unit), Unit, Unit, Unit),
      SlimePropsOut(Jiggling(Unit, 0, Unit), loc[2] * Unit, Unit, Unit),
      SlimePropsOut(Jiggling(2 * Unit, Half, Half), loc[2] * Unit, Unit, Unit),
      SlimePropsOut(Jiggling(2 * Unit, 0, 0), loc[2] * Unit, Unit, Unit) }

Init ==
    /\ physprop \in PhysicsPropertiesSet
    /\ falloff \in FalloffSet
    /\ cells \in { f \in [Locs -> UNION { InitCells(l) : l \in Locs }] :
                     \A l \in Locs : f[l] \in InitCells(l) }
    /\ pc = "idle"
    /\ dt = 0
    /\ cols = <<>>
    /\ col = <<>>
    /\ jiggle_offset = 0
    /\ settled = TRUE
    /\ jiggle_propagations = <<>>
    /\ stack = <<>>
    /\ ret = FALSE
    /\ ticks = 0
    /\ cells0 = cells
    /\ updated = [l \in Locs |-> 0]
    /\ applied = <<>>
    /\ queries = 0

\* --------------------------------------------------------- run_physics

\* The host calls run_physics(d, physprop); cols() yields the columns in `order`.
Call(d, order) ==
    /\ pc = "idle"
    /\ ticks < MaxTicks
    /\ pc' = "run"
    /\ dt' = d
    /\ cols' = order
    /\ col' = <<>>
    /\ jiggle_offset' = 0
    /\ settled' = TRUE
    /\ jiggle_propagations' = <<>>
    /\ ticks' = ticks + 1
    /\ cells0' = cells
    /\ updated' = [l \in Locs |-> 0]
    /\ applied' = <<>>
    /\ queries' = 0
    /\ UNCHANGED <<physprop, falloff, cells, stack, ret>>

ColumnStartOffsetCarried(previous) == previous

\* for col in cols { let mut jiggle_offset = 0.0; ...
ColumnStartOffset(previous) == 0

NextCol ==
    /\ pc = "run"
    /\ stack = <<>>
    /\ col = <<>>
    /\ cols # <<>>
    /\ col' = Head(cols)
    /\ cols' = Tail(cols)
    /\ jiggle_offset' = ColumnStartOffset(jiggle_offset)
    /\ UNCHANGED <<physprop, falloff, cells, pc, dt, settled, jiggle_propagations,
                   stack, ret, ticks, cells0, updated, applied, queries>>

\* self.mut_slime_with(location, |SlimePropsIn { state, y_bottom }| ...)
UpdateCell ==
    /\ pc = "run"
    /\ stack = <<>>
    /\ col # <<>>
    /\ LET location == Head(col)
           r == SlimeUpdate(cells[location], jiggle_offset, settled, location, dt, physprop)
       IN  /\ cells' = [cells EXCEPT ![location] = r.out]
           /\ jiggle_offset' = r.jiggle_offset
           /\ settled' = r.settled
           /\ jiggle_propagations' = jiggle_propagations \o r.push
           /\ updated' = [updated EXCEPT ![location] = @ + 1]
    /\ col' = Tail(col)
    /\ UNCHANGED <<physprop, falloff, pc, dt, cols, stack, ret, ticks, cells0,
                   applied, queries>>

UpdatePassIgnored(cs, c) == TRUE

\* The propagation loop comes after the column loop.
UpdatePassOver(cs, c) == cs = <<>> /\ c = <<>>

Frame(p, entered, dirs) ==
    [at |-> p.at, impulse |-> p.impulse, came_from |-> p.came_from,
     entered |-> entered, dirs |-> dirs]

Top == stack[Len(stack)]

Pop == SubSeq(stack, 1, Len(stack) - 1)

\* for propagation in jiggle_propagations { self.propagate_jiggle(propagation, physprop); }
Dispatch ==
    /\ pc = "run"
    /\ stack = <<>>
    /\ UpdatePassOver(cols, col)
    /\ jiggle_propagations # <<>>
    /\ stack' = <<Frame(Head(jiggle_propagations), FALSE, <<>>)>>
    /\ jiggle_propagations' = Tail(jiggle_propagations)
    /\ UNCHANGED <<physprop, falloff, cells, pc, dt, cols, col, jiggle_offset, settled,
                   ret, ticks, cells0, updated, applied, queries>>

\* propagate_jiggle, up to the fan-out loop: the floor test and the merge.
Enter ==
    /\ stack # <<>>
    /\ ~Top.entered
    /\ IF BelowFloor(Top.impulse, physprop)
       THEN /\ stack' = Pop
            /\ UNCHANGED <<cells, applied>>
       ELSE /\ cells' = [cells EXCEPT ![Top.at].state =
                            MergeImpulse(@, Top.impulse, physprop)]
            /\ applied' = Append(applied, [at |-> Top.at, impulse |-> Top.impulse,
                                           before |-> cells[Top.at].state])
            /\ stack' = Append(Pop, Frame(Top, TRUE, other_directions(Top.came_from)))
    /\ UNCHANGED <<physprop, falloff, pc, dt, cols, col, jiggle_offset, settled,
                   jiggle_propagations, ret, ticks, cells0, updated, queries>>

\* propagate_jiggle: one iteration of for dir in came_from.other_directions().
Fan ==
    /\ stack # <<>>
    /\ Top.entered
    /\ Top.dirs # <<>>
    /\ LET dir == Head(Top.dirs)
           r == apply_dir_to_loc(dir, Top.at, Top.impulse, falloff)
           rest == Append(Pop, Frame(Top, TRUE, Tail(Top.dirs)))
       IN  stack' = IF r.some
                    THEN Append(rest, Frame(JigglePropagation(r.at, r.impulse, opposite(dir)),
                                            FALSE, <<>>))
                    ELSE rest
    /\ queries' = queries + 1
    /\ UNCHANGED <<physprop, falloff, cells, pc, dt, cols, col, jiggle_offset, settled,
                   jiggle_propagations, ret, ticks, cells0, updated, applied>>

\* propagate_jiggle returns after its last direction.
Return ==
    /\ stack # <<>>
    /\ Top.entered
    /\ Top.dirs = <<>>
    /\ stack' = Pop
    /\ UNCHANGED <<physprop, falloff, cells, pc, dt, cols, col, jiggle_offset, settled,
                   jiggle_propagations, ret, ticks, cells0, updated, applied, queries>>

\* run_physics returns settled.
Finish ==
    /\ pc = "run"
    /\ stack = <<>>
    /\ cols = <<>>
    /\ col = <<>>
    /\ jiggle_propagations = <<>>
    /\ pc' = "idle"
    /\ ret' = settled
    /\ UNCHANGED <<physprop, falloff, cells, dt, cols, col, jiggle_offset, settled,
                   jiggle_propagations, stack, ticks, cells0, updated, applied, queries>>

Next ==
    \/ \E d \in DtSet, order \in ColOrders : Call(d, order)
    \/ NextCol
    \/ UpdateCell
    \/ Dispatch
    \/ Enter
    \/ Fan
    \/ Return
    \/ Finish

Spec == Init /\ [][Next]_vars

\* ----------------------------------------------------------------- claims

\* A run_physics call has returned and the board is as the call left it.
Returned == pc = "idle" /\ ticks > 0

AllSettled(cs) == \A l \in Locs : cs[l].state.tag = "Settled"

\* The impulse_jiggle_with calls of this tick that targeted l.
AppliedAt(l) == { i \in 1 .. Len(applied) : applied[i].at = l }

\* C1 as stated: run_physics returns true if and only if every cell is
\* Settled after the call.
C1_Original == Returned => (ret <=> AllSettled(cells))

\* C1 as amended: if run_physics returns true then every cell is Settled after
\* the call, so it returns false whenever a cell is then Falling or Jiggling.
C1_TrueImpliesSettled == (Returned /\ ret) => AllSettled(cells)

C1_Witness == Returned /\ ret /\ AllSettled(cells)

\* A column all of whose cells were Settled when the call started.
SettledColumn(c) == \A k \in 1 .. NRows : cells0[Column(c)[k]].state.tag = "Settled"

\* C2 as stated: after one call every cell of a column that started all
\* Settled is Settled, the k-th cell has y_bottom k and scales 1.0, and the
\* call returns true if every column started all Settled.
C2_Original ==
    Returned =>
        /\ \A c \in 0 .. NCols - 1 : SettledColumn(c) =>
              \A k \in 1 .. NRows :
                 cells[Column(c)[k]] = SlimePropsOut(Settled, (k - 1) * Unit, Unit, Unit)
        /\ (\A c \in 0 .. NCols - 1 : SettledColumn(c)) => ret

\* C2 as amended: in such a column the k-th cell ends the call with y_bottom k
\* and scales 1.0, and is Settled unless a propagation of the same call
\* applied an impulse to it; if every column started all Settled the call
\* returns true and every cell is still Settled.
C2_SettledColumn ==
    Returned =>
        /\ \A c \in 0 .. NCols - 1 : SettledColumn(c) =>
              \A k \in 1 .. NRows :
                 LET l == Column(c)[k]
                 IN  /\ cells[l].y_bottom = (k - 1) * Unit
                     /\ cells[l].y_scale = Unit
                     /\ cells[l].x_scale = Unit
                     /\ \/ cells[l].state = Settled
                        \/ /\ AppliedAt(l) # {}
                           /\ cells[l].state.tag = "Jiggling"
                           /\ cells[l].state.life = Unit
        /\ (\A c \in 0 .. NCols - 1 : SettledColumn(c)) => (ret /\ AllSettled(cells))

C2_Witness ==
    /\ Returned
    /\ SettledColumn(0)
    /\ cells0[<<0, 0>>].y_bottom # 0
    /\ cells0[<<0, 1>>].y_bottom # Unit
    /\ cells[<<0, 0>>].y_bottom = 0
    /\ cells[<<0, 1>>].y_bottom = Unit

\* C3: a propagate_jiggle call whose impulse is below min_impactable returns
\* at once, changing no cell, querying no transfer and calling nothing; every
\* impulse applied to a cell is at least min_impactable.
C3_FloorRespected ==
    /\ [][ (stack # <<>> /\ ~Top.entered /\ Top.impulse < physprop.min_impactable)
              => /\ cells' = cells
                 /\ queries' = queries
                 /\ applied' = applied
                 /\ stack' = Pop ]_vars
    /\ [](\A i \in 1 .. Len(applied) : applied[i].impulse >= physprop.min_impactable)

C3_Witness ==
    /\ stack # <<>>
    /\ ~Top.entered
    /\ Top.impulse < physprop.min_impactable
    /\ Top.impulse >= 0
    /\ applied # <<>>

\* C4: within one call every cell is updated exactly once, and all of these
\* updates precede the first impulse application: while a cell still waits
\* for its update no propagate_jiggle call is active and none has applied an
\* impulse.
C4_UpdateBeforePropagate ==
    /\ \A l \in Locs : updated[l] <= 1
    /\ (stack # <<>> \/ applied # <<>>) => \A l \in Locs : updated[l] = 1
    /\ Returned => \A l \in Locs : updated[l] = 1

C4_Witness ==
    /\ pc = "run"
    /\ Len(applied) = 1
    /\ jiggle_propagations # <<>>
    /\ \A l \in Locs : updated[l] = 1

\* This step is the mut_slime_with call for location l.
UpdateStepAt(l) == updated'[l] = updated[l] + 1

\* This step is an impulse_jiggle_with call.
ApplyStep == Len(applied') = Len(applied) + 1

\* C5: the update of a Falling cell whose integrated position is at or below
\* the running offset writes Jiggling{0, 0, 1} at the running offset with
\* scales 1.0, advances the offset by 1.0 and records exactly one event
\* {at, velocity_to_impact * v', UP}; no other step of the update pass
\* records an event.
C5_ImpactBranch ==
    [][ /\ \A l \in Locs : UpdateStepAt(l) =>
              LET c == cells[l]
                  v1 == c.state.velocity + FMul(dt, physprop.gravity)
                  y1 == c.y_bottom - FMul(v1, dt)
              IN  IF c.state.tag = "Falling" /\ y1 <= jiggle_offset
                  THEN /\ cells'[l] = [state |-> Jiggling(0, 0, Unit),
                                       y_bottom |-> jiggle_offset,
                                       y_scale |-> Unit, x_scale |-> Unit]
                       /\ jiggle_offset' = jiggle_offset + Unit
                       /\ jiggle_propagations' =
                             Append(jiggle_propagations,
                                    [at |-> l,
                                     impulse |-> FMul(physprop.velocity_to_impact, v1),
                                     came_from |-> "UP"])
                  ELSE jiggle_propagations' = jiggle_propagations
        /\ (\A l \in Locs : ~UpdateStepAt(l)) =>
              Len(jiggle_propagations') <= Len(jiggle_propagations) ]_vars

\* A cell has just landed exactly on the running offset and its event is the
\* only one recorded so far.
C5_Witness ==
    /\ pc = "run"
    /\ Len(jiggle_propagations) = 1
    /\ applied = <<>>
    /\ LET e == jiggle_propagations[1]
       IN  /\ cells0[e.at].state.tag = "Falling"
           /\ cells0[e.at].y_bottom
                 - FMul(cells0[e.at].state.velocity + FMul(dt, physprop.gravity), dt)
              = cells[e.at].y_bottom
           /\ cells[e.at].state = Jiggling(0, 0, Unit)
           /\ e.impulse > 0

\* C6: an impulse i applied at a location rewrites the state there by the
\* merge rule (Settled -> Jiggling{i, 0, 1}; Jiggling{m, o, _} ->
\* Jiggling{m + i, o, 1}; Falling{v} -> Jiggling{i + v * velocity_to_impact,
\* 0, 1}), i >= min_impactable, and touches neither y_bottom nor the scales
\* nor any other cell.
C6_MergeRule ==
    [][ ApplyStep =>
          LET e == applied'[Len(applied')]
              s == cells[e.at].state
              i == e.impulse
              t == cells'[e.at].state
          IN  /\ i >= physprop.min_impactable
              /\ s.tag = "Settled" => t = Jiggling(i, 0, Unit)
              /\ s.tag = "Jiggling" => t = Jiggling(s.momentum + i, s.offset, Unit)
              /\ s.tag = "Falling" =>
                    t = Jiggling(i + FMul(s.velocity, physprop.velocity_to_impact), 0, Unit)
              /\ t.tag = "Jiggling" /\ t.life = Unit
              /\ cells' = [cells EXCEPT ![e.at].state = t] ]_vars

\* One tick in which impulses reached a Settled, a Jiggling and a Falling cell.
C6_Witness ==
    /\ \E i \in 1 .. Len(applied) : applied[i].before.tag = "Settled"
    /\ \E i \in 1 .. Len(applied) :
          /\ applied[i].before.tag = "Jiggling"
          /\ applied[i].before.momentum # 0
          /\ applied[i].before.offset # 0
          /\ applied[i].before.life < Unit
    /\ \E i \in 1 .. Len(applied) :
          /\ applied[i].before.tag = "Falling"
          /\ applied[i].before.velocity # 0

\* The cell at l has had its update in this tick and no impulse since.
JustUpdated(l) == pc = "run" /\ updated[l] = 1 /\ AppliedAt(l) = {}

\* C7 as stated: a Jiggling cell whose life is <= 0 is written Settled by
\* its update, and no cell is left Jiggling with life <= 0 at the end of an
\* update.
C7_Original ==
    \A l \in Locs : JustUpdated(l) =>
        /\ (cells0[l].state.tag = "Jiggling" /\ cells0[l].state.life <= 0)
              => cells[l].state = Settled
        /\ ~(cells[l].state.tag = "Jiggling" /\ cells[l].state.life <= 0)

\* C7 as amended: the update of a Jiggling cell whose life is <= 0 when the
\* update starts writes Settled at the running offset with scales 1.0 and
\* advances the offset by 1.0, whatever its momentum and offset.
C7_ExpiredSettles ==
    [][ \A l \in Locs :
          (UpdateStepAt(l) /\ cells[l].state.tag = "Jiggling" /\ cells[l].state.life <= 0)
             => /\ cells'[l] = [state |-> Settled, y_bottom |-> jiggle_offset,
                                y_scale |-> Unit, x_scale |-> Unit]
                /\ jiggle_offset' = jiggle_offset + Unit ]_vars

\* A cell whose life had run below 0 with a large offset has been settled.
C7_Witness ==
    \E l \in Locs :
        /\ JustUpdated(l)
        /\ cells0[l].state.tag = "Jiggling"
        /\ cells0[l].state.life < 0
        /\ Abs(cells0[l].state.offset) >= Unit
        /\ cells[l].state = Settled

\* C8 as stated: while a cell stays Jiggling its life never increases, over
\* update steps and propagation steps alike.
C8_Original ==
    [][ \A l \in Locs :
          (cells[l].state.tag = "Jiggling" /\ cells'[l].state.tag = "Jiggling")
             => cells'[l].state.life <= cells[l].state.life ]_vars

\* C8 as amended: while a cell stays Jiggling its life never increases over
\* the steps of the update pass; only an impulse applied to it by
\* propagation changes it otherwise, setting it to exactly 1.
C8_LifeMonotoneInUpdate ==
    [][ \A l \in Locs :
          (cells[l].state.tag = "Jiggling" /\ cells'[l].state.tag = "Jiggling")
             => \/ cells'[l].state.life <= cells[l].state.life
                \/ /\ ApplyStep
                   /\ applied'[Len(applied')].at = l
                   /\ cells'[l].state.life = Unit ]_vars

\* A cell that has stayed Jiggling through an update that lowered its life.
C8_Witness ==
    \E l \in Locs :
        /\ JustUpdated(l)
        /\ cells0[l].state.tag = "Jiggling"
        /\ cells[l].state.tag = "Jiggling"
        /\ cells[l].state.life < cells0[l].state.life

\* C9: the running offset starts at 0 in every column and never decreases as
\* the column's cells are visited, and what is written to a cell is what the
\* column loop yields on that column's own cells as they were when the call
\* started, whatever the other columns hold and whenever they are visited.
C9_ColumnOffset ==
    [][ /\ (col = <<>> /\ col' # <<>>) => jiggle_offset' = 0
        /\ \A l \in Locs : UpdateStepAt(l) =>
              LET own == [x \in Locs |-> IF x[1] = l[1] THEN cells0[x]
                                         ELSE SlimePropsOut(Settled, 0, Unit, Unit)]
                  r == ColumnUpdate(own, l[1], l[2] + 1, TRUE, dt, physprop)
              IN  /\ jiggle_offset' >= jiggle_offset
                  /\ jiggle_offset' = r.jiggle_offset
                  /\ cells'[l] = r.out ]_vars

\* The second column visited is being updated after a first column that
\* raised the running offset, and a continuing Jiggling cell has contributed
\* less than 1.0.
C9_Witness ==
    /\ pc = "run"
    /\ cols = <<>>
    /\ Len(col) = 1
    /\ jiggle_offset > 0
    /\ jiggle_offset < Unit
    /\ \E l \in Locs : l[1] # Head(col)[1] /\ updated[l] = 1 /\ cells[l].y_bottom > 0

Reverse(seq) == [i \in 1 .. Len(seq) |-> seq[Len(seq) + 1 - i]]

\* The columns in the order of their indices.
ColumnsInOrder == [c \in 1 .. NCols |-> Column(c - 1)]

\* The board after the update pass of the current call.
AfterUpdatePass ==
    [l \in Locs |-> ColumnUpdate(cells0, l[1], l[2] + 1, TRUE, dt, physprop).out]

ImpactWritten(l) ==
    /\ cells'[l].state = Jiggling(0, 0, Unit)
    /\ cells'[l].y_bottom = jiggle_offset
    /\ Len(jiggle_propagations') = Len(jiggle_propagations) + 1
    /\ jiggle_propagations'[Len(jiggle_propagations')].at = l

\* The velocity a Falling cell at l has after integration in this tick.
IntegratedVelocity(l) == cells[l].state.velocity + FMul(dt, physprop.gravity)

\* C11 as stated: a cell that begins a tick Falling with y_bottom at or below
\* the running offset is handled as an impact in that tick, for every
\* velocity, gravity and dt.
C11_Original ==
    [][ \A l \in Locs :
          (UpdateStepAt(l) /\ cells[l].state.tag = "Falling"
              /\ cells[l].y_bottom <= jiggle_offset)
             => ImpactWritten(l) ]_vars

\* C11 as amended: such a cell is handled as an impact in that tick whenever
\* its integrated velocity does not move it up (v' * dt >= 0); when
\* v' * dt < 0 lifts it above the offset it stays Falling at y_bottom - v' * dt.
C11_ImpactUnlessRising ==
    [][ \A l \in Locs :
          (UpdateStepAt(l) /\ cells[l].state.tag = "Falling"
              /\ cells[l].y_bottom <= jiggle_offset)
             => LET step == FMul(IntegratedVelocity(l), dt)
                IN  /\ step >= 0 => ImpactWritten(l)
                    /\ cells[l].y_bottom - step > jiggle_offset =>
                          /\ cells'[l].state = Falling(IntegratedVelocity(l))
                          /\ cells'[l].y_bottom = cells[l].y_bottom - step ]_vars

\* A cell that started the tick Falling on top of a one-cell stack, at the
\* running offset, and was landed there by its update.
C11_Witness ==
    \E l \in Locs :
        /\ JustUpdated(l)
        /\ cells0[l].state.tag = "Falling"
        /\ cells0[l].y_bottom = Unit
        /\ cells[l].y_bottom = Unit
        /\ cells[l].state = Jiggling(0, 0, Unit)

\* This step is an apply_dir_to_loc call.
QueryStep == queries' = queries + 1

\* The opposite of each direction, as a table.
OppositeOf == [UP |-> "DOWN", DOWN |-> "UP", LEFT |-> "RIGHT", RIGHT |-> "LEFT"]

\* C13: a call that arrived from d is set to query exactly the directions
\* other than d, queries them one by one and returns only after the last,
\* never queries d, and passes came_from = opposite(dir) to the call it makes
\* for dir; so no call is made at the location its caller was called from,
\* and a top-level call (came_from UP) makes no call upwards.
C13_FanOutAvoidsArrival ==
    /\ [][ /\ ApplyStep =>
                LET f == stack'[Len(stack')]
                IN  /\ Len(f.dirs) = 3
                    /\ { f.dirs[i] : i \in 1 .. 3 }
                          = {"UP", "DOWN", "LEFT", "RIGHT"} \ {f.came_from}
           /\ QueryStep =>
                LET dir == Head(Top.dirs)
                IN  /\ dir # Top.came_from
                    /\ stack'[Len(stack)].dirs = Tail(Top.dirs)
                    /\ Len(stack') > Len(stack) =>
                          /\ stack'[Len(stack')].came_from = OppositeOf[dir]
                          /\ stack'[Len(stack')].at = Step(dir, Top.at)
           /\ (Len(stack') < Len(stack) /\ Top.entered) => Top.dirs = <<>> ]_vars
    /\ [](/\ \A i \in 2 .. Len(stack) - 1 : stack[i + 1].at # stack[i - 1].at
          /\ Len(stack) >= 2 => stack[2].at # Step("UP", stack[1].at))

\* An impulse that landed on a bottom cell has travelled sideways and then up:
\* three calls deep, the innermost one entered from below.
C13_Witness ==
    /\ Len(stack) = 3
    /\ stack[1].at[2] = 0
    /\ stack[3].came_from = "DOWN"
    /\ stack[3].entered

\* C15 as stated: when a Falling cell's integrated velocity is negative and
\* it stays Falling, the y_bottom written is strictly below the one read.
C15_Original ==
    [][ \A l \in Locs :
          (UpdateStepAt(l) /\ cells[l].state.tag = "Falling"
              /\ cells'[l].state.tag = "Falling" /\ cells'[l].state.velocity < 0)
             => cells'[l].y_bottom < cells[l].y_bottom ]_vars

\* C15 as amended: the convention is positive-downward.  When the cell stays
\* Falling, a positive integrated velocity writes a y_bottom strictly below
\* the one read and a negative one writes a y_bottom strictly above it.
C15_PositiveDownward ==
    [][ \A l \in Locs :
          (UpdateStepAt(l) /\ cells[l].state.tag = "Falling"
              /\ cells'[l].state.tag = "Falling")
             => /\ cells'[l].state.velocity > 0 => cells'[l].y_bottom < cells[l].y_bottom
                /\ cells'[l].state.velocity < 0 => cells'[l].y_bottom > cells[l].y_bottom
       ]_vars

\* One update pass in which a cell fell towards the stack without reaching it
\* and another cell rose.
C15_Witness ==
    /\ \E l \in Locs :
          /\ JustUpdated(l)
          /\ cells0[l].state.tag = "Falling"
          /\ cells[l].state.tag = "Falling"
          /\ cells[l].state.velocity > 0
          /\ cells[l].y_bottom < cells0[l].y_bottom
    /\ \E l \in Locs :
          /\ JustUpdated(l)
          /\ cells0[l].state.tag = "Falling"
          /\ cells[l].state.tag = "Falling"
          /\ cells[l].state.velocity < 0
          /\ cells[l].y_bottom > cells0[l].y_bottom

\* The update pass of the current call is over and no impulse has been
\* applied yet.
UpdatePassDone ==
    /\ pc = "run"
    /\ cols = <<>>
    /\ col = <<>>
    /\ applied = <<>>
    /\ \A l \in Locs : updated[l] = 1

\* The cell at l was Jiggling before its update and still is after it.
ContinuesJiggling(l) ==
    cells0[l].state.tag = "Jiggling" /\ cells[l].state.tag = "Jiggling"

\* C16: after the update pass the non-Falling cells of each column form a
\* gap-free stack: the first has y_bottom 0 and each later one sits at the
\* previous one's y_bottom plus its contribution, 1.0 unless that cell
\* continues Jiggling, in which case y_scale = max(1 - offset, 0); a cell that
\* continues Jiggling has x_scale = 1 / max(y_scale, 0.5), within (0, 2].
C16_GapFreeStack ==
    UpdatePassDone =>
        \A c \in 0 .. NCols - 1 :
            LET at(k) == cells[Column(c)[k]]
                stacked == { k \in 1 .. NRows : at(k).state.tag # "Falling" }
                contribution(k) == IF ContinuesJiggling(Column(c)[k])
                                   THEN at(k).y_scale ELSE Unit
            IN  \A k \in stacked :
                   /\ (\A j \in stacked : j >= k) => at(k).y_bottom = 0
                   /\ \A n \in stacked :
                         (k < n /\ \A j \in stacked : ~(k < j /\ j < n))
                            => at(n).y_bottom = at(k).y_bottom + contribution(k)
                   /\ ContinuesJiggling(Column(c)[k]) =>
                         /\ at(k).y_scale = Max(Unit - at(k).state.offset, 0)
                         /\ at(k).x_scale = RDiv(Unit * Unit, Max(at(k).y_scale, Half))
                         /\ at(k).x_scale > 0
                         /\ at(k).x_scale <= 2 * Unit

\* A compressed cell that continues Jiggling carries a cell above it, which
\* sits lower than a full cell height.
C16_Witness ==
    /\ UpdatePassDone
    /\ \E c \in 0 .. NCols - 1 :
          /\ ContinuesJiggling(<<c, 0>>)
          /\ cells[<<c, 0>>].y_scale > 0
          /\ cells[<<c, 0>>].y_scale < Unit
          /\ cells[<<c, 1>>].state.tag # "Falling"
          /\ cells[<<c, 1>>].y_bottom = cells[<<c, 0>>].y_scale

\* C18: run_physics returns true if and only if every cell was Settled when
\* the call started; such a call records no event, makes no propagate_jiggle
\* call and leaves every state as it was.
C18_TrueIffStartedSettled ==
    /\ Returned => (ret <=> AllSettled(cells0))
    /\ ((pc = "run" \/ Returned) /\ AllSettled(cells0)) =>
          /\ jiggle_propagations = <<>>
          /\ stack = <<>>
          /\ applied = <<>>
          /\ queries = 0
          /\ \A l \in Locs : cells[l].state = cells0[l].state

\* A call in which the last Jiggling cell settled, no impulse was applied and
\* every cell ended Settled, and which returned false.
C18_Witness ==
    /\ Returned
    /\ ~ret
    /\ AllSettled(cells)
    /\ applied = <<>>
    /\ \E l \in Locs : cells0[l].state.tag = "Jiggling"
    /\ \A l \in Locs : cells0[l].state.tag # "Falling"

\* C19: no step makes a cell Falling that was not Falling, so the number of
\* Falling cells never grows; an event is recorded for a cell only by the
\* update that takes it out of Falling.
C19_NeverBecomesFalling ==
    [][ /\ \A l \in Locs :
              cells'[l].state.tag = "Falling" => cells[l].state.tag = "Falling"
        /\ Cardinality({ l \in Locs : cells'[l].state.tag = "Falling" })
              <= Cardinality({ l \in Locs : cells[l].state.tag = "Falling" })
        /\ Len(jiggle_propagations') > Len(jiggle_propagations) =>
              LET l == jiggle_propagations'[Len(jiggle_propagations')].at
              IN  /\ Len(jiggle_propagations') = Len(jiggle_propagations) + 1
                  /\ cells[l].state.tag = "Falling"
                  /\ cells'[l].state.tag # "Falling" ]_vars

\* In the second call a Settled cell took an impulse while another cell was
\* still Falling.
C19_Witness ==
    /\ ticks = 2
    /\ \E i \in 1 .. Len(applied) : applied[i].before.tag = "Settled"
    /\ \E l \in Locs : cells[l].state.tag = "Falling"

\* ------------------------------------------------ a board with a fast faller

\* The largest speed, in cell heights per unit time, a host gives a cell.
MaxFallVel == 10

FallVelocities == { k * Unit : k \in -MaxFallVel .. MaxFallVel }

\* No run_physics call has been made yet.
Fresh ==
    /\ pc = "idle"
    /\ dt = 0
    /\ cols = <<>>
    /\ col = <<>>
    /\ jiggle_offset = 0
    /\ settled = TRUE
    /\ jiggle_propagations = <<>>
    /\ stack = <<>>
    /\ ret = FALSE
    /\ ticks = 0
    /\ cells0 = cells
    /\ updated = [l \in Locs |-> 0]
    /\ applied = <<>>
    /\ queries = 0

\* The settled boards on which the host has placed one Falling cell, on top
\* of the first column, just above the stack or far above it.
FallBoards ==
    { [l \in Locs |->
          IF l = <<0, NRows - 1>>
          THEN SlimePropsOut(Falling(v), y, Unit, Unit)
          ELSE SlimePropsOut(Settled, l[2] * Unit, Unit, Unit)] :
      v \in FallVelocities, y \in {Unit, 16 * Unit} }

FallInit ==
    /\ physprop \in PhysicsPropertiesSet
    /\ falloff \in FalloffSet
    /\ cells \in FallBoards
    /\ Fresh

FallSpec == FallInit /\ [][Next]_vars

\* The update at l leaves a Falling cell Falling: its integrated position is
\* strictly above the running offset.
StaysFalling(l) ==
    /\ UpdateStepAt(l)
    /\ cells[l].state.tag = "Falling"
    /\ cells[l].y_bottom - FMul(IntegratedVelocity(l), dt) > jiggle_offset

\* clamp(1 + v / 9, 1, 2)
Stretch(v) == Max(Unit, Min(2 * Unit, Unit + RDiv(v, 9)))

Running == NextCol \/ UpdateCell \/ Dispatch \/ Enter \/ Fan \/ Return \/ Finish

FairFallSpec == FallSpec /\ WF_vars(Running)

\* A nested propagate_jiggle call has just been made.
NestedCall == stack # <<>> /\ Len(stack') = Len(stack) + 1

\* C12: with a transfer function that takes a fixed positive step off the
\* impulse on every hop, every nested call carries a strictly smaller impulse
\* than its caller, every propagate_jiggle call returns and so does
\* run_physics.
C12_PropagationTerminates ==
    /\ [][ NestedCall =>
             /\ falloff > 0
             /\ ~BelowFloor(Top.impulse, physprop)
             /\ Top'.impulse <= Top.impulse - falloff ]_vars
    /\ (stack # <<>>) ~> (stack = <<>>)
    /\ (pc = "run") ~> (pc = "idle")

\* A branch of the recursion, at least three calls deep, reaches a call whose
\* impulse is below the floor.
C12_Witness ==
    /\ Len(stack) >= 3
    /\ ~Top.entered
    /\ BelowFloor(Top.impulse, physprop)
    /\ \A i \in 1 .. Len(stack) - 1 : stack[i].entered

\* ------------------------------------------------ a lossless transfer function

\* The deepest recursion of propagate_jiggle that is followed.
MaxDepth == 10

\* A board whose transfer function passes the impulse on unchanged, next to
\* one that takes a whole unit off it.
CycleFalloffSet == {0, Unit}

CycleInit ==
    /\ physprop \in PhysicsPropertiesSet
    /\ falloff \in CycleFalloffSet
    /\ cells \in FallBoards
    /\ Fresh

\* The fan-out, followed down to MaxDepth nested calls.
FanCapped == Len(stack) < MaxDepth /\ Fan

CycleNext ==
    \/ \E d \in DtSet, order \in ColOrders : Call(d, order)
    \/ NextCol
    \/ UpdateCell
    \/ Dispatch
    \/ Enter
    \/ FanCapped
    \/ Return
    \/ Finish

CycleSpec == CycleInit /\ [][CycleNext]_vars

\* A propagate_jiggle call is in progress on a lossless board with an impulse
\* at or above the floor.
LosslessCall ==
    /\ falloff = 0
    /\ stack # <<>>
    /\ ~BelowFloor(stack[1].impulse, physprop)

SameCall(f, g) ==
    /\ f.at = g.at
    /\ f.came_from = g.came_from
    /\ f.impulse = g.impulse

\* C17: on the 2x2 board with a lossless transfer function and an impulse at
\* or above the floor, no propagate_jiggle call ever returns: every nested
\* call carries the same impulse, each call from the sixth on repeats the
\* (location, arrival direction, impulse) of the call four levels above it,
\* and every visit adds the impulse to the visited cell's momentum.
C17_LosslessCycleNeverReturns ==
    [][ LosslessCall =>
          /\ Len(stack') >= Len(stack)
          /\ \A i \in 1 .. Len(stack') : stack'[i].impulse = stack[1].impulse
          /\ \A j \in 6 .. Len(stack') : SameCall(stack'[j], stack'[j - 4])
          /\ (~Top.entered /\ cells[Top.at].state.tag = "Jiggling") =>
                /\ cells'[Top.at].state.tag = "Jiggling"
                /\ cells'[Top.at].state.momentum =
                       cells[Top.at].state.momentum + Top.impulse ]_vars

\* The recursion has gone round the board twice: the call at the depth limit
\* repeats an earlier one and a cell has taken the same impulse three times.
C17_Witness ==
    /\ LosslessCall
    /\ Len(stack) = MaxDepth
    /\ Top.entered
    /\ SameCall(Top, stack[MaxDepth - 4])
    /\ \E i, j, k \in 1 .. Len(applied) :
          /\ i < j
          /\ j < k
          /\ applied[i].at = applied[j].at
          /\ applied[j].at = applied[k].at
          /\ applied[i].impulse = applied[k].impulse
          /\ applied[j].impulse = applied[k].impulse
          /\ cells[applied[k].at].state.momentum >= 3 * applied[k].impulse

\* ------------------------------------------------- a board left to settle

\* The number of run_physics calls made on the board left to settle.
MaxSettleTicks == 7

\* PhysicsProperties whose life decrease rate goes down to one step of the
\* number representation: multiplied by a small dt the decrement the code
\* computes is lost to rounding, as a small f32 decrement is lost when it is
\* subtracted from a life near 1.
SettlePhysicsSet ==
    { [pp EXCEPT !.jiggle_life_decrease_rate = rate] :
        pp \in PhysicsPropertiesSet, rate \in {1, Half, Unit} }

SettleDtSet == {1, Half, Unit}

\* No Falling cell: Settled, or Jiggling with a full or a nearly spent life.
SettleCells(loc) ==
    { SlimePropsOut(Settled, loc[2] * Unit, Unit, Unit),
      SlimePropsOut(Jiggling(2 * Unit, 0, Unit), loc[2] * Unit, Unit, Unit),
      SlimePropsOut(Jiggling(Unit, Half, 1), loc[2] * Unit, Unit, Unit) }

SettleInit ==
    /\ physprop \in SettlePhysicsSet
    /\ falloff \in FalloffSet
    /\ cells \in { f \in [Locs -> UNION { SettleCells(l) : l \in Locs }] :
                     \A l \in Locs : f[l] \in SettleCells(l) }
    /\ Fresh

\* The host calls run_physics again, with the dt of its first call.
SettleCall(d, order) ==
    /\ pc = "idle"
    /\ ticks < MaxSettleTicks
    /\ ticks = 0 \/ d = dt
    /\ pc' = "run"
    /\ dt' = d
    /\ cols' = order
    /\ col' = <<>>
    /\ jiggle_offset' = 0
    /\ settled' = TRUE
    /\ jiggle_propagations' = <<>>
    /\ ticks' = ticks + 1
    /\ cells0' = cells
    /\ updated' = [l \in Locs |-> 0]
    /\ applied' = <<>>
    /\ queries' = 0
    /\ UNCHANGED <<physprop, falloff, cells, stack, ret>>

\* Without a Falling cell no event is pushed, so the propagation loop has
\* nothing to do.
SettleNext ==
    \/ \E d \in SettleDtSet, order \in ColOrders : SettleCall(d, order)
    \/ NextCol
    \/ UpdateCell
    \/ Finish

SettleSpec == SettleInit /\ [][SettleNext]_vars

CeilDiv(a, b) == (a + b - 1) \div b

\* The decrement the Jiggling arm computes.
LifeStep == FMul(physprop.jiggle_life_decrease_rate, dt)

\* The update of a Jiggling cell settles it when its life is spent and takes
\* the decrement off its life otherwise, and no event is recorded.
Countdown ==
    /\ jiggle_propagations' = <<>>
    /\ \A l \in Locs :
          (UpdateStepAt(l) /\ cells[l].state.tag = "Jiggling") =>
             /\ cells[l].state.life <= 0 => cells'[l].state.tag = "Settled"
             /\ cells'[l].state.tag = "Jiggling" =>
                   cells'[l].state.life = cells[l].state.life - LifeStep
             /\ cells'[l].state.tag # "Falling"

\* Between calls, a cell still Jiggling after `ticks` updates has had fewer
\* than ceil(life / r) + 1 of them, life being the life it began with (every
\* update so far took LifeStep off it) and r being scaled by Unit.
StillJigglingWithin(r) ==
    \A l \in Locs : cells[l].state.tag = "Jiggling" =>
        LET life == cells[l].state.life + ticks * LifeStep
        IN  /\ life <= Unit
            /\ ticks < CeilDiv(life * Unit, r) + 1

\* A call on a board that was all Settled returned true and left it Settled;
\* a call that returned true left it Settled.
KeepsReturningTrue ==
    /\ AllSettled(cells0) => ret /\ AllSettled(cells)
    /\ ret => AllSettled(cells)

\* With a decrement r > 0 (scaled by Unit) every cell settles in time and
\* the calls then return true.
SettlesWithin(r) ==
    (Returned /\ r > 0) =>
        /\ StillJigglingWithin(r)
        /\ KeepsReturningTrue
        /\ ticks >= CeilDiv(Unit * Unit, r) + 2 => ret

====
